---- MODULE Spec2Model ----
(***************************************************************************)
(* Model of the RAG backend's chunking / embedding / vector-store pipeline *)
(* (app/utils/chunking.py, app/utils/embeddings.py,                        *)
(* app/utils/vector_store.py, app/services/document_service.py).           *)
(*                                                                         *)
(* A Python str is a sequence of one-character strings.                    *)
(***************************************************************************)
EXTENDS Integers, Sequences, FiniteSets, TLC

(***************************************************************************)
(* Bounds of the model.                                                    *)
(***************************************************************************)
MaxTokens == 5
MaxChunkSize == 4
MaxOverlap == 2

(***************************************************************************)
(* Characters.  The texts of the model are built from an upper-case        *)
(* letter, a sentence terminator, a space and the blank line "\n\n".       *)
(***************************************************************************)
Upper == {"A"}
Punct == {".", "!", "?"}
Whitespace == {" ", "\n"}

Tokens == {<<"A">>, <<".">>, <<" ">>, <<"\n", "\n">>}

RECURSIVE TextsUpTo(_)
TextsUpTo(n) ==
    IF n = 0 THEN {<<>>}
    ELSE LET prev == TextsUpTo(n - 1)
         IN  prev \cup {t \o tok : t \in prev, tok \in Tokens}

Texts == TextsUpTo(MaxTokens)

Min(a, b) == IF a <= b THEN a ELSE b

(***************************************************************************)
(* str.strip(): leading and trailing whitespace removed.                   *)
(***************************************************************************)
RECURSIVE lstrip(_)
lstrip(s) ==
    IF s # <<>> /\ s[1] \in Whitespace THEN lstrip(Tail(s)) ELSE s

RECURSIVE rstrip(_)
rstrip(s) ==
    IF s # <<>> /\ s[Len(s)] \in Whitespace
    THEN rstrip(SubSeq(s, 1, Len(s) - 1))
    ELSE s

strip(s) == rstrip(lstrip(s))

(***************************************************************************)
(* text.split('\n\n'): the pieces between the non-overlapping occurrences  *)
(* of the separator, scanning left to right; empty pieces are kept.        *)
(***************************************************************************)
RECURSIVE split_blank_lines(_)
split_blank_lines(s) ==
    LET hits == {i \in 1..(Len(s) - 1) : s[i] = "\n" /\ s[i + 1] = "\n"}
    IN  IF hits = {} THEN <<s>>
        ELSE LET i == CHOOSE k \in hits : \A m \in hits : k <= m
             IN  <<SubSeq(s, 1, i - 1)>> \o split_blank_lines(SubSeq(s, i + 2, Len(s)))

(***************************************************************************)
(* re.split(r'(?<=[.!?])\s+(?=[A-Z])', text): a separator is a maximal run *)
(* of whitespace that follows a terminator and precedes an upper-case      *)
(* letter.  RunEnd(s, i) is the last index of the whitespace run at i.     *)
(***************************************************************************)
RECURSIVE RunEnd(_, _)
RunEnd(s, i) ==
    IF i < Len(s) /\ s[i + 1] \in Whitespace THEN RunEnd(s, i + 1) ELSE i

IsSentenceBreak(s, i) ==
    /\ i > 1
    /\ s[i - 1] \in Punct
    /\ s[i] \in Whitespace
    /\ RunEnd(s, i) < Len(s)
    /\ s[RunEnd(s, i) + 1] \in Upper

RECURSIVE re_split(_)
re_split(s) ==
    LET hits == {i \in 1..Len(s) : IsSentenceBreak(s, i)}
    IN  IF hits = {} THEN <<s>>
        ELSE LET i == CHOOSE k \in hits : \A m \in hits : k <= m
             IN  <<SubSeq(s, 1, i - 1)>> \o re_split(SubSeq(s, RunEnd(s, i) + 1, Len(s)))

RECURSIVE StripNonEmpty(_)
StripNonEmpty(pieces) ==
    IF pieces = <<>> THEN <<>>
    ELSE IF strip(Head(pieces)) # <<>>
         THEN <<strip(Head(pieces))>> \o StripNonEmpty(Tail(pieces))
         ELSE StripNonEmpty(Tail(pieces))

_split_into_sentences(text) == StripNonEmpty(re_split(text))

(***************************************************************************)
(* The packing loops of chunk_text.  A loop state is the pair              *)
(* [chunks, current_chunk].                                                *)
(***************************************************************************)
ParagraphFits(current_chunk, paragraph, size) ==
    Len(current_chunk) + Len(paragraph) + 2 <= size

\* Variant: the separating space is not counted.
SentenceFitsNoSeparator(current_chunk, sentence, size) ==
    Len(current_chunk) + Len(sentence) <= size

SentenceFits(current_chunk, sentence, size) ==
    Len(current_chunk) + Len(sentence) + 1 <= size

\* Variant: the chunk is appended without the `if current_chunk:` test.
FlushAlways(chunks, current_chunk) == Append(chunks, current_chunk)

Flush(chunks, current_chunk) ==
    IF current_chunk # <<>> THEN Append(chunks, current_chunk) ELSE chunks

\* Variant: a sentence that does not fit is cut at `size` characters.
RECURSIVE PackSentencesCut(_, _, _, _)
PackSentencesCut(sentences, chunks, current_chunk, size) ==
    IF sentences = <<>> THEN [chunks |-> chunks, current_chunk |-> current_chunk]
    ELSE LET sentence == Head(sentences)
         IN  IF SentenceFits(current_chunk, sentence, size)
             THEN PackSentencesCut(Tail(sentences), chunks,
                      IF current_chunk # <<>>
                      THEN current_chunk \o <<" ">> \o sentence
                      ELSE sentence, size)
             ELSE PackSentencesCut(Tail(sentences), Flush(chunks, current_chunk),
                      SubSeq(sentence, 1, Min(size, Len(sentence))), size)

RECURSIVE PackSentences(_, _, _, _)
PackSentences(sentences, chunks, current_chunk, size) ==
    IF sentences = <<>> THEN [chunks |-> chunks, current_chunk |-> current_chunk]
    ELSE LET sentence == Head(sentences)
         IN  IF SentenceFits(current_chunk, sentence, size)
             THEN PackSentences(Tail(sentences), chunks,
                      IF current_chunk # <<>>
                      THEN current_chunk \o <<" ">> \o sentence
                      ELSE sentence, size)
             ELSE PackSentences(Tail(sentences), Flush(chunks, current_chunk),
                      sentence, size)

RECURSIVE PackParagraphs(_, _, _, _)
PackParagraphs(paragraphs, chunks, current_chunk, size) ==
    IF paragraphs = <<>> THEN [chunks |-> chunks, current_chunk |-> current_chunk]
    ELSE LET paragraph == strip(Head(paragraphs))
             rest == Tail(paragraphs)
         IN  IF paragraph = <<>>
             THEN PackParagraphs(rest, chunks, current_chunk, size)
             ELSE IF ParagraphFits(current_chunk, paragraph, size)
             THEN PackParagraphs(rest, chunks,
                      IF current_chunk # <<>>
                      THEN current_chunk \o <<"\n", "\n">> \o paragraph
                      ELSE paragraph, size)
             ELSE IF Len(paragraph) > size
             THEN LET r == PackSentences(_split_into_sentences(paragraph),
                               Flush(chunks, current_chunk), <<>>, size)
                  IN  PackParagraphs(rest, r.chunks, r.current_chunk, size)
             ELSE PackParagraphs(rest, Flush(chunks, current_chunk), paragraph, size)

(***************************************************************************)
(* The list `chunks` of chunk_text after the trailing flush, before the    *)
(* overlap step.                                                           *)
(***************************************************************************)
\* Variant: the trailing flush is missing.
PackedChunksNoTrailingFlush(text, size) ==
    PackParagraphs(split_blank_lines(text), <<>>, <<>>, size).chunks

PackedChunks(text, size) ==
    LET r == PackParagraphs(split_blank_lines(text), <<>>, <<>>, size)
    IN  Flush(r.chunks, r.current_chunk)

(***************************************************************************)
(* _add_overlap: every chunk but the first gets the tail of the chunk      *)
(* before it (of the list it is given) and one space in front.             *)
(***************************************************************************)
\* Variant: the head of the previous chunk is taken instead of its tail.
OverlapTextHead(prev_chunk, overlap) ==
    IF Len(prev_chunk) > overlap THEN SubSeq(prev_chunk, 1, overlap) ELSE prev_chunk

OverlapText(prev_chunk, overlap) ==
    IF Len(prev_chunk) > overlap
    THEN SubSeq(prev_chunk, Len(prev_chunk) - overlap + 1, Len(prev_chunk))
    ELSE prev_chunk

\* _add_overlap taking the overlap from the previous chunk of the new list.
_add_overlap_cumulative(chunks, overlap) ==
    LET f[i \in 1..Len(chunks)] ==
            IF i = 1 THEN chunks[1]
            ELSE OverlapText(f[i - 1], overlap) \o <<" ">> \o chunks[i]
    IN  [i \in 1..Len(chunks) |-> f[i]]

_add_overlap(chunks, overlap) ==
    [i \in 1..Len(chunks) |->
        IF i = 1 THEN chunks[1]
        ELSE OverlapText(chunks[i - 1], overlap) \o <<" ">> \o chunks[i]]

IsBlankInput(text) == text = <<>> \/ strip(text) = <<>>

\* Variant: a text that fits in one chunk is returned before the blank check.
chunk_text_short_first(text, size, overlap) ==
    IF Len(text) <= size THEN <<text>>
    ELSE LET chunks == PackedChunks(text, size)
         IN  IF overlap > 0 /\ Len(chunks) > 1
             THEN _add_overlap(chunks, overlap)
             ELSE chunks

chunk_text(text, size, overlap) ==
    IF IsBlankInput(text) THEN <<>>
    ELSE LET chunks == PackedChunks(text, size)
         IN  IF overlap > 0 /\ Len(chunks) > 1
             THEN _add_overlap(chunks, overlap)
             ELSE chunks

(***************************************************************************)
(* EmbeddingGenerator.  A vector is a sequence of numbers; the placeholder *)
(* returns the empty list, and one empty list per text for a batch.        *)
(***************************************************************************)
Max(a, b) == IF a >= b THEN a ELSE b

\* get_chunk_count without the floor of one chunk.
get_chunk_count_no_floor(t, size) == IF t = <<>> THEN 0 ELSE Len(t) \div size

\* if not text: return 0; return max(1, len(text) // self.chunk_size)
get_chunk_count(t, size) == IF t = <<>> THEN 0 ELSE Max(1, Len(t) \div size)

generate_embedding(t) == <<>>

\* Variant: the batch answers with one vector whatever it is given.
generate_embeddings_batch_single(texts) == <<<<>>>>

generate_embeddings_batch(texts) == [i \in 1..Len(texts) |-> <<>>]

(***************************************************************************)
(* VectorStore.  `store` is the persisted data: a set of chunk records     *)
(* [chunk_id, document_id, content, embedding, metadata].  The store,      *)
(* search and delete methods are the placeholders of the source: storing   *)
(* and deleting are `pass`, searching returns the empty list.              *)
(***************************************************************************)
store_embeddings(store, document_id, chunks, embeddings, metadata) == store

\* Variant: the search answers with a canned match, as in its docstring.
similarity_search_canned(store, query_embedding, top_k) ==
    <<[chunk_id |-> <<"doc1", 0>>, content |-> <<"A">>, score |-> 92,
       metadata |-> "None"]>>

similarity_search(store, query_embedding, top_k) == <<>>

delete_document(store, document_id) == store

(***************************************************************************)
(* DocumentService.__init__: the chunker of the service.                   *)
(***************************************************************************)
EmbeddingDimension == 384

\* QueryRequest: question min_length, max_results default and range.
question_min_length == 1

max_results_default == 5

max_results_ge == 1

max_results_le == 20

ServiceChunkSize == 1000
ServiceChunkOverlap == 200

(***************************************************************************)
(* Inputs of the service calls of the model.                               *)
(***************************************************************************)
TaskIds == {"t1", "t2"}
NoTask == "none"
DocumentIds == {"doc1", "doc2"}
NoMetadata == "None"

LongParagraph == [i \in 1..600 |-> "A"]
LongerParagraph == [i \in 1..700 |-> IF i = 700 THEN "." ELSE "A"]

DocumentTexts ==
    { <<>>,
      <<" ">>,
      <<"\n", "\n", " ">>,
      <<"A", ".">>,
      <<"A", ".", "\n", "\n", "A">>,
      LongParagraph \o <<"\n", "\n">> \o LongerParagraph,
      LongerParagraph \o <<"\n", "\n">> \o LongParagraph \o <<"\n", "\n">> \o LongParagraph }

\* The texts of repeated chunk_text calls; MaxCalls bounds their number.
RepeatTexts ==
    { <<>>,
      <<"A", ".", " ", "A">>,
      <<"A", "\n", "\n", "A", ".">>,
      <<"A", ".", " ", "A", ".", " ", "A">> }

MaxCalls == 3

\* Requests reaching the middleware.  A header value is a sequence of words
\* and spaces; a request without the header has has_header FALSE.
Methods == {"GET", "POST", "OPTIONS"}

Paths == {"/", "/docs", "/api/health", "/api/health/", "/api/chat",
          "/api/documents/query"}

AuthHeaders ==
    {[has_header |-> FALSE, value |-> <<>>]} \cup
    {[has_header |-> TRUE, value |-> v] :
        v \in { <<>>, <<"Bearer">>, <<"Bearer", " ", "tok">>,
                <<"bearer", " ", "tok">>, <<"Basic", " ", "tok">>,
                <<"tok", " ", "Bearer", " ">> }}

\* What the GET of /auth/validate ends with: a response (its status code,
\* whether its body is JSON) or an exception of httpx or another one.
AuthAnswers ==
    {[kind |-> "response", status_code |-> c, json |-> j] :
        c \in {200, 201, 401, 500}, j \in BOOLEAN} \cup
    {[kind |-> k, status_code |-> 0, json |-> FALSE] :
        k \in {"TimeoutException", "RequestError", "Exception"}}

\* The status codes of the downstream handler's responses.
HandlerStatus == {200, 404}

\* The chat requests in flight, the conversationId of a request body (absent
\* or given), the ids uuid4 can return, and the message texts.
ChatIds == {"r1", "r2"}

ConversationIdInputs ==
    {[given |-> FALSE, id |-> ""], [given |-> TRUE, id |-> "c1"]}

Uuids == {"u1", "u2"}

ChatMessages == { <<"q">>, <<"q", "q">> }

\* What the POST to the LLM ends with: a response (status code, whether the
\* body is JSON, the content of its message) or an exception of httpx.
LLMOutcomes ==
    {[kind |-> "response", status_code |-> 200, json |-> TRUE, content |-> <<"a">>],
     [kind |-> "response", status_code |-> 200, json |-> TRUE, content |-> <<>>],
     [kind |-> "response", status_code |-> 200, json |-> FALSE, content |-> <<>>],
     [kind |-> "response", status_code |-> 502, json |-> TRUE, content |-> <<"a">>],
     [kind |-> "TimeoutException", status_code |-> 0, json |-> FALSE, content |-> <<>>],
     [kind |-> "RequestError", status_code |-> 0, json |-> FALSE, content |-> <<>>]}

Questions == { <<>>, <<" ">>, <<"A">> }

MaxResults == 3

\* The max_results member of a request body: absent, or an integer.
NoMaxResults == [given |-> FALSE, value |-> 0]

RequestedResults ==
    {NoMaxResults} \cup
    {[given |-> TRUE, value |-> v] :
        v \in (0..MaxResults) \cup {max_results_le, max_results_le + 1}}

\* Errors a backing embedding model or a database can raise.
EmbedderErrors == {[kind |-> "ModelUnavailable", message |-> <<"model unreachable">>]}

StoreErrors == {[kind |-> "StoreFailure", message |-> <<"connection lost">>]}

NoError == [kind |-> "none", message |-> <<>>]

\* QueryRequest without the range of max_results.
QueryRequestValidNoRange(q, m) == Len(q) >= question_min_length

\* QueryRequest validation: question has min_length 1; max_results is
\* optional and, when given, ge 1 and le 20.
QueryRequestValid(q, m) ==
    /\ Len(q) >= question_min_length
    /\ (m.given => (m.value >= max_results_ge /\ m.value <= max_results_le))

\* max_results=query.max_results or 5
MaxResultsOrDefault(m) ==
    IF m.given /\ m.value # 0 THEN m.value ELSE max_results_default

\* The except clause re-raising the error unchanged.
process_document_reraise(e) ==
    [status |-> "error", kind |-> e.kind, message |-> e.message]

\* except Exception as e: raise Exception(f"Failed to process document: {str(e)}")
process_document_except(e) ==
    [status |-> "error", kind |-> "Exception",
     message |-> <<"Failed to process document: ">> \o e.message]

\* except Exception as e: raise Exception(f"Failed to query documents: {str(e)}")
query_documents_except(e) ==
    [status |-> "error", kind |-> "Exception",
     message |-> <<"Failed to query documents: ">> \o e.message]

(***************************************************************************)
(* AuthMiddleware.                                                         *)
(***************************************************************************)
public_routes == {"/", "/docs", "/redoc", "/openapi.json", "/api/health"}

\* auth_header.startswith("Bearer ")
StartsWithBearer(h) == Len(h) >= 2 /\ h[1] = "Bearer" /\ h[2] = " "

\* auth_header.replace("Bearer ", "")
RECURSIVE RemoveBearer(_)
RemoveBearer(h) ==
    IF h = <<>> THEN <<>>
    ELSE IF StartsWithBearer(h) THEN RemoveBearer(Tail(Tail(h)))
    ELSE <<Head(h)>> \o RemoveBearer(Tail(h))

\* The test with `== 401` in place of `!= 200`.
TokenRejectedOnly401(answer) == answer.status_code = 401

\* if response.status_code != 200
TokenRejected(answer) == answer.status_code # 200

JSONResponse(code) == [status_code |-> code]

(***************************************************************************)
(* The chat route.                                                         *)
(***************************************************************************)
MAX_CONTEXT_MESSAGES == 10

\* The rows of `messages` of one conversation, oldest first.
MessagesOf(rows, conversation_id) ==
    SelectSeq(rows, LAMBDA r : r.conversation_id = conversation_id)

\* order_by(created_at.desc()).limit(n), reversed
RecentMessages(rows, conversation_id, n) ==
    LET all == MessagesOf(rows, conversation_id)
    IN  IF Len(all) <= n THEN all ELSE SubSeq(all, Len(all) - n + 1, Len(all))

\* The status and the assistant message the chat route derives from what
\* the LLM call ended with; `content` is empty when nothing is to be saved.
ChatResult(o) ==
    IF o.kind = "TimeoutException" THEN [status_code |-> 504, content |-> <<>>]
    ELSE IF o.kind = "RequestError" THEN [status_code |-> 503, content |-> <<>>]
    ELSE IF o.status_code # 200 THEN [status_code |-> o.status_code, content |-> <<>>]
    ELSE IF ~o.json THEN [status_code |-> 500, content |-> <<>>]
    ELSE IF o.content = <<>> THEN [status_code |-> 500, content |-> <<>>]
    ELSE [status_code |-> 200, content |-> o.content]

(***************************************************************************)
(* State.                                                                  *)
(***************************************************************************)
VARIABLES
    chunk_size,     \* TextChunker.chunk_size
    chunk_overlap,  \* TextChunker.chunk_overlap
    text,           \* the argument of a direct chunk_text call
    cpc,            \* position of that call: "idle" | "call" | "done"
    packed,         \* chunk_text's list `chunks` before the overlap step
    result,         \* the list chunk_text returns
    history,        \* the chunk_text calls made on the chunker, in order
    estimate,       \* the values get_chunk_count has returned
    vstore,         \* the data persisted by the VectorStore
    tasks,          \* the service calls: one record per task of the event loop
    running,        \* the task the event loop is running, or NoTask
    embed_calls,    \* the calls the embedder has received, in order
    store_calls,    \* the calls store_embeddings has received, in order
    search_calls,   \* the calls similarity_search has received, in order
    auth,           \* the request AuthMiddleware.dispatch is processing
    validate_calls, \* the tokens sent to the auth service's /auth/validate
    handler_calls,  \* the requests passed to call_next
    conversations,  \* the committed rows of table conversations (their ids)
    messages,       \* the committed rows of table messages, in insertion order
    chats,          \* the chat requests: one record per request
    llm_calls       \* the requests sent to the LLM, in order

cvars == <<chunk_size, chunk_overlap, text, cpc, packed, result, history, estimate>>
svars == <<vstore, tasks, running, embed_calls, store_calls, search_calls>>
avars == <<auth, validate_calls, handler_calls>>
hvars == <<conversations, messages, chats, llm_calls>>
wvars == <<avars, hvars>>
vars == <<cvars, svars, wvars>>

IdleTask ==
    [op |-> "none", pc |-> "idle", document_id |-> "", text |-> <<>>,
     metadata |-> NoMetadata, chunks |-> <<>>, embeddings |-> <<>>,
     question |-> <<>>, max_results |-> 0, query_embedding |-> <<>>,
     results |-> <<>>, response |-> [status |-> "none"],
     via |-> "service", requested |-> NoMaxResults, raised |-> NoError,
     http |-> [status_code |-> 0]]

ServiceIdle ==
    /\ vstore = {}
    /\ tasks = [t \in TaskIds |-> IdleTask]
    /\ running = NoTask
    /\ embed_calls = <<>>
    /\ store_calls = <<>>
    /\ search_calls = <<>>

NoAnswer == [kind |-> "none", status_code |-> 0, json |-> FALSE]

IdleRequest ==
    [pc |-> "idle", method |-> "", path |-> "", auth_header |-> <<>>,
     has_header |-> FALSE, answer |-> NoAnswer, user |-> "none",
     response |-> [status_code |-> 0]]

IdleChat ==
    [pc |-> "idle", conversation_id |-> "", message |-> <<>>,
     user_index |-> 0, assistant_index |-> 0, outcome |-> [kind |-> "none"],
     http |-> [status_code |-> 0]]

WebIdle ==
    /\ auth = IdleRequest
    /\ validate_calls = <<>>
    /\ handler_calls = <<>>
    /\ conversations = {}
    /\ messages = <<>>
    /\ chats = [c \in ChatIds |-> IdleChat]
    /\ llm_calls = <<>>

(***************************************************************************)
(* Specification of one chunk_text call on a chunker of any configuration. *)
(***************************************************************************)
ChunkInit ==
    /\ chunk_size \in 1..MaxChunkSize
    /\ chunk_overlap \in 0..MaxOverlap
    /\ text \in Texts
    /\ cpc = "call"
    /\ packed = <<>>
    /\ result = <<>>
    /\ history = <<>>
    /\ estimate = <<>>
    /\ ServiceIdle
    /\ WebIdle

\* chunk_text keeping the chunks of earlier calls in the chunker.
ChunkTextAccumulating ==
    /\ cpc = "call"
    /\ cpc' = "done"
    /\ packed' = (IF IsBlankInput(text) THEN <<>> ELSE PackedChunks(text, chunk_size))
    /\ result' = result \o chunk_text(text, chunk_size, chunk_overlap)
    /\ history' = Append(history,
                         [text |-> text, chunk_size |-> chunk_size,
                          chunk_overlap |-> chunk_overlap, result |-> result'])
    /\ UNCHANGED <<chunk_size, chunk_overlap, text, estimate, svars, wvars>>

ChunkText ==
    /\ cpc = "call"
    /\ cpc' = "done"
    /\ packed' = (IF IsBlankInput(text) THEN <<>> ELSE PackedChunks(text, chunk_size))
    /\ result' = chunk_text(text, chunk_size, chunk_overlap)
    /\ history' = Append(history,
                         [text |-> text, chunk_size |-> chunk_size,
                          chunk_overlap |-> chunk_overlap, result |-> result'])
    /\ UNCHANGED <<chunk_size, chunk_overlap, text, estimate, svars, wvars>>

\* get_chunk_count(text) is called on the chunker.
GetChunkCount ==
    /\ estimate = <<>>
    /\ estimate' = <<get_chunk_count(text, chunk_size)>>
    /\ UNCHANGED <<chunk_size, chunk_overlap, text, cpc, packed, result, history, svars, wvars>>

ChunkNext == ChunkText \/ GetChunkCount

ChunkSpec == ChunkInit /\ [][ChunkNext]_vars

(***************************************************************************)
(* Specification of several calls on one chunker: after a chunk_text call  *)
(* has returned, chunk_text is called again, on the same or another text.  *)
(***************************************************************************)
RepeatInit ==
    /\ chunk_size \in 1..MaxChunkSize
    /\ chunk_overlap \in 0..MaxOverlap
    /\ text \in RepeatTexts
    /\ cpc = "call"
    /\ packed = <<>>
    /\ result = <<>>
    /\ history = <<>>
    /\ estimate = <<>>
    /\ ServiceIdle
    /\ WebIdle

ChunkAgain(txt) ==
    /\ cpc = "done"
    /\ Len(history) < MaxCalls
    /\ text' = txt
    /\ cpc' = "call"
    /\ UNCHANGED <<chunk_size, chunk_overlap, packed, result, history, estimate, svars, wvars>>

RepeatNext ==
    \/ ChunkText
    \/ GetChunkCount
    \/ \E txt \in RepeatTexts : ChunkAgain(txt)

RepeatSpec == RepeatInit /\ [][RepeatNext]_vars

(***************************************************************************)
(* Specification of the DocumentService: the module-level instance of      *)
(* app/api/routes/documents.py serving calls as tasks of one event loop.   *)
(* None of the awaited coroutines (chunk_text, the embedder, the store)    *)
(* contains a suspension point, so a call that has started runs to its     *)
(* return before the loop runs another task: `running` is the task that    *)
(* holds the loop.  The steps of a call are its statements between awaits. *)
(***************************************************************************)
Init ==
    /\ chunk_size = ServiceChunkSize
    /\ chunk_overlap = ServiceChunkOverlap
    /\ text = <<>>
    /\ cpc = "idle"
    /\ packed = <<>>
    /\ result = <<>>
    /\ history = <<>>
    /\ estimate = <<>>
    /\ ServiceIdle
    /\ WebIdle

\* process_document(text, document_id, metadata) is called.
StartIngest(t, d, txt) ==
    /\ running = NoTask
    /\ tasks[t].pc = "idle"
    /\ tasks' = [tasks EXCEPT ![t] =
                    [@ EXCEPT !.op = "ingest", !.pc = "chunk",
                              !.document_id = d, !.text = txt]]
    /\ running' = t
    /\ UNCHANGED <<cvars, wvars, vstore, embed_calls, store_calls, search_calls>>

\* Step 1 writing each chunk to the store as soon as it is cut.
IngestChunkWritesEarly(t) ==
    /\ running = t
    /\ tasks[t].pc = "chunk"
    /\ tasks' = [tasks EXCEPT ![t] =
                    [@ EXCEPT !.chunks = chunk_text(tasks[t].text, chunk_size, chunk_overlap),
                              !.pc = "embed"]]
    /\ vstore' = vstore \cup
                   {[chunk_id |-> <<tasks[t].document_id, i - 1>>,
                     document_id |-> tasks[t].document_id,
                     content |-> tasks'[t].chunks[i],
                     embedding |-> <<>>, metadata |-> tasks[t].metadata] :
                        i \in 1..Len(tasks'[t].chunks)}
    /\ UNCHANGED <<cvars, wvars, running, embed_calls, store_calls, search_calls>>

\* Step 1: chunks = await self.chunker.chunk_text(text)
IngestChunk(t) ==
    /\ running = t
    /\ tasks[t].pc = "chunk"
    /\ tasks' = [tasks EXCEPT ![t] =
                    [@ EXCEPT !.chunks = chunk_text(tasks[t].text, chunk_size, chunk_overlap),
                              !.pc = "embed"]]
    /\ UNCHANGED <<cvars, wvars, vstore, running, embed_calls, store_calls, search_calls>>

\* Step 2: embeddings = await self.embedder.generate_embeddings_batch(chunks)
IngestEmbed(t) ==
    /\ running = t
    /\ tasks[t].pc = "embed"
    /\ embed_calls' = Append(embed_calls,
                             [task |-> t, method |-> "batch", texts |-> tasks[t].chunks])
    /\ tasks' = [tasks EXCEPT ![t] =
                    [@ EXCEPT !.embeddings = generate_embeddings_batch(tasks[t].chunks),
                              !.pc = "store"]]
    /\ UNCHANGED <<cvars, wvars, vstore, running, store_calls, search_calls>>

\* Step 3: await self.vector_store.store_embeddings(...)
IngestStore(t) ==
    /\ running = t
    /\ tasks[t].pc = "store"
    /\ store_calls' = Append(store_calls,
                             [task |-> t, document_id |-> tasks[t].document_id,
                              chunks |-> tasks[t].chunks,
                              embeddings |-> tasks[t].embeddings,
                              metadata |-> tasks[t].metadata])
    /\ vstore' = store_embeddings(vstore, tasks[t].document_id, tasks[t].chunks,
                                  tasks[t].embeddings, tasks[t].metadata)
    /\ tasks' = [tasks EXCEPT ![t].pc = "return"]
    /\ UNCHANGED <<cvars, wvars, running, embed_calls, search_calls>>

\* The return reporting the number of chunks the store holds for the document.
IngestReturnCountsStored(t) ==
    /\ running = t
    /\ tasks[t].op = "ingest"
    /\ tasks[t].pc = "return"
    /\ tasks' = [tasks EXCEPT ![t] =
                    [@ EXCEPT !.response =
                                  [document_id |-> tasks[t].document_id,
                                   chunks_created |->
                                       Cardinality({r \in vstore :
                                           r.document_id = tasks[t].document_id}),
                                   status |-> "success"],
                              !.pc = "done"]]
    /\ running' = NoTask
    /\ UNCHANGED <<cvars, wvars, vstore, embed_calls, store_calls, search_calls>>

\* return {"document_id": ..., "chunks_created": len(chunks), "status": "success"}
IngestReturn(t) ==
    /\ running = t
    /\ tasks[t].op = "ingest"
    /\ tasks[t].pc = "return"
    /\ tasks' = [tasks EXCEPT ![t] =
                    [@ EXCEPT !.response = [document_id |-> tasks[t].document_id,
                                            chunks_created |-> Len(tasks[t].chunks),
                                            status |-> "success"],
                              !.pc = "done"]]
    /\ running' = NoTask
    /\ UNCHANGED <<cvars, wvars, vstore, embed_calls, store_calls, search_calls>>

\* query_documents(question, max_results) is called.
StartQuery(t, q, k) ==
    /\ running = NoTask
    /\ tasks[t].pc = "idle"
    /\ tasks' = [tasks EXCEPT ![t] =
                    [@ EXCEPT !.op = "query", !.pc = "embed_query",
                              !.question = q, !.max_results = k]]
    /\ running' = t
    /\ UNCHANGED <<cvars, wvars, vstore, embed_calls, store_calls, search_calls>>

\* Step 1: query_embedding = await self.embedder.generate_embedding(question)
QueryEmbed(t) ==
    /\ running = t
    /\ tasks[t].pc = "embed_query"
    /\ embed_calls' = Append(embed_calls,
                             [task |-> t, method |-> "single",
                              texts |-> <<tasks[t].question>>])
    /\ tasks' = [tasks EXCEPT ![t] =
                    [@ EXCEPT !.query_embedding = generate_embedding(tasks[t].question),
                              !.pc = "search"]]
    /\ UNCHANGED <<cvars, wvars, vstore, running, store_calls, search_calls>>

\* Step 2: results = await self.vector_store.similarity_search(...)
QuerySearch(t) ==
    /\ running = t
    /\ tasks[t].pc = "search"
    /\ search_calls' = Append(search_calls,
                              [task |-> t, query_embedding |-> tasks[t].query_embedding,
                               top_k |-> tasks[t].max_results])
    /\ tasks' = [tasks EXCEPT ![t] =
                    [@ EXCEPT !.results = similarity_search(vstore, tasks[t].query_embedding,
                                                            tasks[t].max_results),
                              !.pc = "return"]]
    /\ UNCHANGED <<cvars, wvars, vstore, running, embed_calls, store_calls>>

\* return {"query": question, "results": results, "answer": "TODO: ..."}
QueryReturn(t) ==
    /\ running = t
    /\ tasks[t].op = "query"
    /\ tasks[t].pc = "return"
    /\ tasks' = [tasks EXCEPT ![t] =
                    [@ EXCEPT !.response = [query |-> tasks[t].question,
                                            results |-> tasks[t].results,
                                            status |-> "success"],
                              !.pc = IF tasks[t].via = "route"
                                     THEN "route_return" ELSE "done"]]
    /\ running' = IF tasks[t].via = "route" THEN t ELSE NoTask
    /\ UNCHANGED <<cvars, wvars, vstore, embed_calls, store_calls, search_calls>>

\* POST /query: the body is validated as a QueryRequest, then the route calls
\* document_service.query_documents(query.question, query.max_results or 5).
RouteQuery(t, q, m) ==
    /\ running = NoTask
    /\ tasks[t].pc = "idle"
    /\ IF QueryRequestValid(q, m)
       THEN /\ tasks' = [tasks EXCEPT ![t] =
                            [@ EXCEPT !.op = "query", !.pc = "embed_query",
                                      !.via = "route", !.requested = m,
                                      !.question = q,
                                      !.max_results = MaxResultsOrDefault(m)]]
            /\ running' = t
       ELSE /\ tasks' = [tasks EXCEPT ![t] =
                            [@ EXCEPT !.op = "query", !.pc = "rejected",
                                      !.via = "route", !.requested = m,
                                      !.question = q,
                                      !.http = [status_code |-> 422]]]
            /\ running' = NoTask
    /\ UNCHANGED <<cvars, wvars, vstore, embed_calls, store_calls, search_calls>>

\* return {"query": ..., "answer": ..., "sources": result.get("results", [])}
RouteQueryReturn(t) ==
    /\ running = t
    /\ tasks[t].pc = "route_return"
    /\ tasks' = [tasks EXCEPT ![t] =
                    [@ EXCEPT !.http = [status_code |-> 200,
                                        query |-> tasks[t].question,
                                        sources |-> tasks[t].response.results],
                              !.pc = "done"]]
    /\ running' = NoTask
    /\ UNCHANGED <<cvars, wvars, vstore, embed_calls, store_calls, search_calls>>

\* delete_document answering "not found" for an id that has no chunks.
DeleteDocumentNotFound(t, d) ==
    /\ running = NoTask
    /\ tasks[t].pc = "idle"
    /\ vstore' = delete_document(vstore, d)
    /\ tasks' = [tasks EXCEPT ![t] =
                    [@ EXCEPT !.op = "delete", !.pc = "done", !.document_id = d,
                              !.response =
                                  [status |-> IF \E r \in vstore : r.document_id = d
                                              THEN "success" ELSE "not_found"]]]
    /\ UNCHANGED <<cvars, wvars, running, embed_calls, store_calls, search_calls>>

\* DocumentService.delete_document(document_id)
DeleteDocument(t, d) ==
    /\ running = NoTask
    /\ tasks[t].pc = "idle"
    /\ vstore' = delete_document(vstore, d)
    /\ tasks' = [tasks EXCEPT ![t] =
                    [@ EXCEPT !.op = "delete", !.pc = "done", !.document_id = d,
                              !.response = [status |-> "success"]]]
    /\ UNCHANGED <<cvars, wvars, running, embed_calls, store_calls, search_calls>>

Next ==
    \/ \E t \in TaskIds, d \in DocumentIds, txt \in DocumentTexts : StartIngest(t, d, txt)
    \/ \E t \in TaskIds : IngestChunk(t)
    \/ \E t \in TaskIds : IngestEmbed(t)
    \/ \E t \in TaskIds : IngestStore(t)
    \/ \E t \in TaskIds : IngestReturn(t)
    \/ \E t \in TaskIds, q \in Questions, k \in 1..MaxResults : StartQuery(t, q, k)
    \/ \E t \in TaskIds : QueryEmbed(t)
    \/ \E t \in TaskIds : QuerySearch(t)
    \/ \E t \in TaskIds : QueryReturn(t)
    \/ \E t \in TaskIds, d \in DocumentIds : DeleteDocument(t, d)
    \/ \E t \in TaskIds, q \in Questions, m \in RequestedResults : RouteQuery(t, q, m)
    \/ \E t \in TaskIds : RouteQueryReturn(t)

Spec == Init /\ [][Next]_vars

(***************************************************************************)
(* Specification of AuthMiddleware.dispatch on one request.  dispatch      *)
(* suspends at the GET of the auth service and at call_next.               *)
(***************************************************************************)
\* dispatch up to its first await.
Dispatch(m, p, h) ==
    /\ auth.pc = "idle"
    /\ LET req == [auth EXCEPT !.method = m, !.path = p,
                               !.has_header = h.has_header,
                               !.auth_header = h.value]
       IN  IF m = "OPTIONS" \/ p \in public_routes
           THEN /\ auth' = [req EXCEPT !.pc = "call_next"]
                /\ handler_calls' = Append(handler_calls, [method |-> m, path |-> p])
                /\ UNCHANGED validate_calls
           ELSE IF ~h.has_header \/ h.value = <<>>
           THEN /\ auth' = [req EXCEPT !.pc = "done", !.response = JSONResponse(401)]
                /\ UNCHANGED <<validate_calls, handler_calls>>
           ELSE IF ~StartsWithBearer(h.value)
           THEN /\ auth' = [req EXCEPT !.pc = "done", !.response = JSONResponse(401)]
                /\ UNCHANGED <<validate_calls, handler_calls>>
           ELSE /\ auth' = [req EXCEPT !.pc = "validate"]
                /\ validate_calls' = Append(validate_calls, RemoveBearer(h.value))
                /\ UNCHANGED handler_calls
    /\ UNCHANGED <<cvars, svars, hvars>>

\* The GET of /auth/validate ends with answer a.
Validated(a) ==
    /\ auth.pc = "validate"
    /\ IF a.kind = "TimeoutException" \/ a.kind = "RequestError"
       THEN /\ auth' = [auth EXCEPT !.answer = a, !.pc = "done",
                                    !.response = JSONResponse(503)]
            /\ UNCHANGED handler_calls
       ELSE IF a.kind = "Exception"
       THEN /\ auth' = [auth EXCEPT !.answer = a, !.pc = "done",
                                    !.response = JSONResponse(500)]
            /\ UNCHANGED handler_calls
       ELSE IF TokenRejected(a)
       THEN /\ auth' = [auth EXCEPT !.answer = a, !.pc = "done",
                                    !.response = JSONResponse(401)]
            /\ UNCHANGED handler_calls
       ELSE IF ~a.json
       THEN /\ auth' = [auth EXCEPT !.answer = a, !.pc = "done",
                                    !.response = JSONResponse(500)]
            /\ UNCHANGED handler_calls
       ELSE /\ auth' = [auth EXCEPT !.answer = a, !.pc = "call_next",
                                    !.user = "user_data"]
            /\ handler_calls' = Append(handler_calls,
                                       [method |-> auth.method, path |-> auth.path])
    /\ UNCHANGED <<cvars, svars, hvars, validate_calls>>

\* call_next returns the downstream handler's response.
CallNextReturns(code) ==
    /\ auth.pc = "call_next"
    /\ auth' = [auth EXCEPT !.pc = "done", !.response = [status_code |-> code]]
    /\ UNCHANGED <<cvars, svars, hvars, validate_calls, handler_calls>>

AuthNext ==
    \/ \E m \in Methods, p \in Paths, h \in AuthHeaders : Dispatch(m, p, h)
    \/ \E a \in AuthAnswers : Validated(a)
    \/ \E code \in HandlerStatus : CallNextReturns(code)

AuthSpec == Init /\ [][AuthNext]_vars

(***************************************************************************)
(* Specification of POST /chat.  The handler runs on the event loop and    *)
(* its database calls are synchronous, so it suspends only at the POST to  *)
(* the LLM: a request runs from its start to that call, and from the end   *)
(* of that call to its response, without another request in between.       *)
(***************************************************************************)
\* From the start of the handler to the POST to the LLM.
ChatBegin(c, cid, msg, uuid) ==
    /\ chats[c].pc = "idle"
    /\ uuid \notin conversations
    /\ LET conversation_id == IF cid.given THEN cid.id ELSE uuid
       IN  /\ conversations' = conversations \cup {conversation_id}
           /\ messages' = Append(messages,
                                 [conversation_id |-> conversation_id,
                                  role |-> "user", content |-> msg])
           /\ chats' = [chats EXCEPT ![c] =
                           [@ EXCEPT !.pc = "llm",
                                     !.conversation_id = conversation_id,
                                     !.message = msg,
                                     !.user_index = Len(messages')]]
           /\ llm_calls' = Append(llm_calls,
                                  [chat |-> c,
                                   context |-> RecentMessages(messages', conversation_id,
                                                              MAX_CONTEXT_MESSAGES)])
    /\ UNCHANGED <<cvars, svars, avars>>

\* The handler rolling the session back when the LLM gave no answer.
ChatAnsweredRollsBack(c, o) ==
    /\ chats[c].pc = "llm"
    /\ LET r == ChatResult(o)
       IN  /\ messages' = IF r.content # <<>>
                          THEN Append(messages,
                                      [conversation_id |-> chats[c].conversation_id,
                                       role |-> "assistant", content |-> r.content])
                          ELSE SubSeq(messages, 1, chats[c].user_index - 1) \o
                               SubSeq(messages, chats[c].user_index + 1, Len(messages))
           /\ chats' = [chats EXCEPT ![c] =
                           [@ EXCEPT !.pc = "done", !.outcome = o,
                                     !.assistant_index =
                                         IF r.content # <<>> THEN Len(messages') ELSE 0,
                                     !.http = [status_code |-> r.status_code]]]
    /\ UNCHANGED <<cvars, svars, avars, conversations, llm_calls>>

\* From the end of the POST to the LLM to the response of the handler.
ChatAnswered(c, o) ==
    /\ chats[c].pc = "llm"
    /\ LET r == ChatResult(o)
       IN  /\ messages' = IF r.content # <<>>
                          THEN Append(messages,
                                      [conversation_id |-> chats[c].conversation_id,
                                       role |-> "assistant", content |-> r.content])
                          ELSE messages
           /\ chats' = [chats EXCEPT ![c] =
                           [@ EXCEPT !.pc = "done", !.outcome = o,
                                     !.assistant_index =
                                         IF r.content # <<>> THEN Len(messages') ELSE 0,
                                     !.http = [status_code |-> r.status_code]]]
    /\ UNCHANGED <<cvars, svars, avars, conversations, llm_calls>>

ChatNext ==
    \/ \E c \in ChatIds, cid \in ConversationIdInputs, msg \in ChatMessages,
          uuid \in Uuids : ChatBegin(c, cid, msg, uuid)
    \/ \E c \in ChatIds, o \in LLMOutcomes : ChatAnswered(c, o)

ChatSpec == Init /\ [][ChatNext]_vars

(***************************************************************************)
(* The DocumentService over an embedding model and a database that can     *)
(* fail: a call of the embedder or of the store either returns as above or *)
(* raises, and the except clause of the pipeline that made the call runs.  *)
(***************************************************************************)
Fail(t, e, wrapped) ==
    /\ tasks' = [tasks EXCEPT ![t] =
                    [@ EXCEPT !.raised = e, !.response = wrapped,
                              !.pc = IF tasks[t].via = "route"
                                     THEN "route_except" ELSE "failed"]]
    /\ running' = IF tasks[t].via = "route" THEN t ELSE NoTask

\* generate_embeddings_batch(chunks) raises e.
IngestEmbedRaises(t, e) ==
    /\ running = t
    /\ tasks[t].pc = "embed"
    /\ embed_calls' = Append(embed_calls,
                             [task |-> t, method |-> "batch", texts |-> tasks[t].chunks])
    /\ Fail(t, e, process_document_except(e))
    /\ UNCHANGED <<cvars, wvars, vstore, store_calls, search_calls>>

\* store_embeddings(...) raises e, having stored nothing.
IngestStoreRaises(t, e) ==
    /\ running = t
    /\ tasks[t].pc = "store"
    /\ store_calls' = Append(store_calls,
                             [task |-> t, document_id |-> tasks[t].document_id,
                              chunks |-> tasks[t].chunks,
                              embeddings |-> tasks[t].embeddings,
                              metadata |-> tasks[t].metadata])
    /\ Fail(t, e, process_document_except(e))
    /\ UNCHANGED <<cvars, wvars, vstore, embed_calls, search_calls>>

\* generate_embedding(question) raises e.
QueryEmbedRaises(t, e) ==
    /\ running = t
    /\ tasks[t].pc = "embed_query"
    /\ embed_calls' = Append(embed_calls,
                             [task |-> t, method |-> "single",
                              texts |-> <<tasks[t].question>>])
    /\ Fail(t, e, query_documents_except(e))
    /\ UNCHANGED <<cvars, wvars, vstore, store_calls, search_calls>>

\* similarity_search(...) raises e.
QuerySearchRaises(t, e) ==
    /\ running = t
    /\ tasks[t].pc = "search"
    /\ search_calls' = Append(search_calls,
                              [task |-> t, query_embedding |-> tasks[t].query_embedding,
                               top_k |-> tasks[t].max_results])
    /\ Fail(t, e, query_documents_except(e))
    /\ UNCHANGED <<cvars, wvars, vstore, embed_calls, store_calls>>

\* except Exception as e: raise HTTPException(status_code=500, detail=str(e))
RouteQueryExcept(t) ==
    /\ running = t
    /\ tasks[t].pc = "route_except"
    /\ tasks' = [tasks EXCEPT ![t] =
                    [@ EXCEPT !.http = [status_code |-> 500,
                                        detail |-> tasks[t].response.message],
                              !.pc = "failed"]]
    /\ running' = NoTask
    /\ UNCHANGED <<cvars, wvars, vstore, embed_calls, store_calls, search_calls>>

FaultNext ==
    \/ Next
    \/ \E t \in TaskIds, e \in EmbedderErrors : IngestEmbedRaises(t, e)
    \/ \E t \in TaskIds, e \in StoreErrors : IngestStoreRaises(t, e)
    \/ \E t \in TaskIds, e \in EmbedderErrors : QueryEmbedRaises(t, e)
    \/ \E t \in TaskIds, e \in StoreErrors : QuerySearchRaises(t, e)
    \/ \E t \in TaskIds : RouteQueryExcept(t)

FaultSpec == Init /\ [][FaultNext]_vars

(***************************************************************************)
(* Vocabulary of the chunker properties.                                   *)
(***************************************************************************)
IsPrefix(p, s) == Len(p) <= Len(s) /\ SubSeq(s, 1, Len(p)) = p

IsSuffix(p, s) == Len(p) <= Len(s) /\ SubSeq(s, Len(s) - Len(p) + 1, Len(s)) = p

LastChars(s, n) == SubSeq(s, Len(s) - n + 1, Len(s))

DropChars(s, n) == SubSeq(s, n + 1, Len(s))

Contains(s, u) ==
    \E k \in 0..(Len(s) - Len(u)) : SubSeq(s, k + 1, k + Len(u)) = u

Range(f) == {f[i] : i \in DOMAIN f}

\* The non-empty paragraphs of a text, trimmed, in source order.
Paragraphs(t) == StripNonEmpty(split_blank_lines(t))

\* The units the chunker packs: a paragraph that fits in `size`, or the
\* sentences of a paragraph that does not.
RECURSIVE UnitsOf(_, _)
UnitsOf(paragraphs, size) ==
    IF paragraphs = <<>> THEN <<>>
    ELSE (IF Len(Head(paragraphs)) > size
          THEN _split_into_sentences(Head(paragraphs))
          ELSE <<Head(paragraphs)>>) \o UnitsOf(Tail(paragraphs), size)

Units == UnitsOf(Paragraphs(text), chunk_size)

\* The sentences the splitter produces for the paragraphs longer than `size`.
SplitSentences ==
    UNION {Range(_split_into_sentences(p)) :
              p \in {q \in Range(Paragraphs(text)) : Len(q) > chunk_size}}

\* Every sentence the splitter produces for any paragraph of the text.
AllSentences ==
    UNION {Range(_split_into_sentences(p)) : p \in Range(Paragraphs(text))}

OverlapApplied == chunk_overlap > 0 /\ Len(packed) > 1

\* Length of what the overlap step put in front of returned chunk i.
PrefixLen(i) ==
    IF OverlapApplied /\ i > 1
    THEN Min(chunk_overlap, Len(packed[i - 1])) + 1
    ELSE 0

\* Returned chunk i without its overlap prefix.
Body(i) == DropChars(result[i], PrefixLen(i))

Bodies == [i \in 1..Len(result) |-> Body(i)]

\* c is the units us joined by a space or a blank line.
RECURSIVE IsJoinOf(_, _)
IsJoinOf(c, us) ==
    /\ us # <<>>
    /\ IsPrefix(Head(us), c)
    /\ LET r == DropChars(c, Len(Head(us)))
       IN  IF Len(us) = 1 THEN r = <<>>
           ELSE \/ IsPrefix(<<" ">>, r) /\ IsJoinOf(DropChars(r, 1), Tail(us))
                \/ IsPrefix(<<"\n", "\n">>, r) /\ IsJoinOf(DropChars(r, 2), Tail(us))

\* The chunks are the units, in order, each unit in exactly one chunk.
RECURSIVE Grouped(_, _)
Grouped(chunks, units) ==
    IF chunks = <<>> THEN units = <<>>
    ELSE \E m \in 1..Len(units) :
            /\ IsJoinOf(Head(chunks), SubSeq(units, 1, m))
            /\ Grouped(Tail(chunks), SubSeq(units, m + 1, Len(units)))

(***************************************************************************)
(* C1 (as stated): every returned chunk has length <= chunk_size unless it *)
(* is a single sentence longer than chunk_size.                            *)
(***************************************************************************)
C1_ChunkWithinSize ==
    cpc = "done" =>
        \A i \in 1..Len(result) :
            \/ Len(result[i]) <= chunk_size
            \/ result[i] \in AllSentences /\ Len(result[i]) > chunk_size

(***************************************************************************)
(* C1 (amended): every returned chunk, without the overlap prefix that the *)
(* overlap step put in front of it (at most chunk_overlap characters and   *)
(* one space; nothing for the first chunk or when no overlap is applied),  *)
(* has length <= chunk_size unless it is a single sentence longer than     *)
(* chunk_size.                                                             *)
(***************************************************************************)
C1_BodyWithinSize ==
    cpc = "done" =>
        \A i \in 1..Len(result) :
            /\ PrefixLen(i) <= chunk_overlap + 1
            /\ PrefixLen(i) <= Len(result[i])
            /\ \/ Len(Body(i)) <= chunk_size
               \/ Body(i) \in SplitSentences /\ Len(Body(i)) > chunk_size

\* A returned chunk longer than chunk_size whose body fits, and one whose
\* body is a sentence longer than chunk_size.
C1_Witness ==
    /\ cpc = "done"
    /\ \E i \in 1..Len(result) :
          Len(result[i]) > chunk_size /\ Len(Body(i)) <= chunk_size
    /\ \E i \in 1..Len(result) : Len(Body(i)) > chunk_size

(***************************************************************************)
(* C2 (as stated): with chunk_overlap > 0 and at least two chunks, every   *)
(* returned chunk after the first begins with the last                     *)
(* min(chunk_overlap, len) characters of the returned chunk before it.     *)
(***************************************************************************)
C2_OverlapOfReturned ==
    (cpc = "done" /\ chunk_overlap > 0 /\ Len(result) >= 2) =>
        \A i \in 2..Len(result) :
            IsPrefix(LastChars(result[i - 1],
                               Min(chunk_overlap, Len(result[i - 1]))),
                     result[i])

(***************************************************************************)
(* C2 (amended): with chunk_overlap > 0 and at least two chunks, every     *)
(* returned chunk after the first begins with the last                     *)
(* min(chunk_overlap, len) characters of the chunk before it as that chunk *)
(* was before the overlap step (without its own overlap prefix).           *)
(***************************************************************************)
C2_OverlapOfPacked ==
    (cpc = "done" /\ chunk_overlap > 0 /\ Len(result) >= 2) =>
        /\ Len(packed) = Len(result)
        /\ \A i \in 2..Len(result) :
              IsPrefix(LastChars(packed[i - 1],
                                 Min(chunk_overlap, Len(packed[i - 1]))),
                       result[i])

\* Three chunks, the middle one shorter than chunk_overlap before the
\* overlap step.
C2_Witness ==
    /\ cpc = "done"
    /\ chunk_overlap > 0
    /\ Len(result) >= 3
    /\ Len(packed[2]) < chunk_overlap

(***************************************************************************)
(* C3: no chunk boundary falls inside a sentence: every unit (a paragraph  *)
(* that fits in chunk_size, a sentence of a paragraph that does not) lies  *)
(* wholly inside one returned chunk, and a sentence longer than chunk_size *)
(* is a chunk of its own, whole, preceded by nothing but the overlap       *)
(* prefix.                                                                 *)
(***************************************************************************)
C3_NoMidSentenceSplit ==
    cpc = "done" =>
        /\ \A u \in Range(Units) :
              \E i \in 1..Len(result) : Contains(Body(i), u)
        /\ \A s \in SplitSentences :
              Len(s) > chunk_size => \E i \in 1..Len(result) : Body(i) = s

\* A paragraph split into several sentences, one of them longer than
\* chunk_size and not in the first chunk.
C3_Witness ==
    /\ cpc = "done"
    /\ Len(result) >= 2
    /\ \E p \in Range(Paragraphs(text)) :
          /\ Len(p) > chunk_size
          /\ Len(_split_into_sentences(p)) >= 2
    /\ \E i \in 2..Len(result) : Body(i) \in SplitSentences /\ Len(Body(i)) > chunk_size

(***************************************************************************)
(* C4: the N returned chunks sit at positions 0..N-1 (indexes 1..N of the  *)
(* sequence) and, without their overlap prefixes, are the non-empty units  *)
(* of the source in source order: every unit is in exactly one chunk, none *)
(* is dropped, duplicated or reordered.                                    *)
(***************************************************************************)
C4_OrderPreserved ==
    cpc = "done" =>
        /\ DOMAIN result = 1..Len(packed)
        /\ \A i \in 1..Len(result) : PrefixLen(i) <= Len(result[i])
        /\ Grouped(Bodies, Units)

\* Several chunks with overlap, at least one holding more than one unit.
C4_Witness ==
    /\ cpc = "done"
    /\ chunk_overlap > 0
    /\ Len(result) >= 2
    /\ Len(Units) > Len(result)

(***************************************************************************)
(* C5: chunk_text of the empty string or of a text of whitespace only      *)
(* returns the empty sequence, for every chunk_size and chunk_overlap.     *)
(***************************************************************************)
C5_BlankGivesNoChunks ==
    (cpc = "done" /\ \A i \in 1..Len(text) : text[i] \in Whitespace) =>
        result = <<>>

\* A call on a non-empty text of whitespace only has returned.
C5_Witness ==
    /\ cpc = "done"
    /\ Len(text) >= 1
    /\ \A i \in 1..Len(text) : text[i] \in Whitespace
    /\ result = <<>>

(***************************************************************************)
(* Vocabulary of the pipeline properties.                                  *)
(***************************************************************************)
Blank(t) == \A i \in 1..Len(t) : t[i] \in Whitespace

\* The chunk set a completed store of (d, chunks, embeddings) persists.
ExpectedRecords(d, chunks, embeddings, metadata) ==
    {[chunk_id |-> <<d, i - 1>>, document_id |-> d, content |-> chunks[i],
      embedding |-> embeddings[i], metadata |-> metadata] : i \in 1..Len(chunks)}

TaskRecords(t) ==
    ExpectedRecords(tasks[t].document_id, tasks[t].chunks, tasks[t].embeddings,
                    tasks[t].metadata)

StoredFor(d) == {r \in vstore : r.document_id = d}

CalledBy(calls, t) == \E i \in 1..Len(calls) : calls[i].task = t

IngestDone(t) == tasks[t].op = "ingest" /\ tasks[t].pc = "done"

Searched(t) == tasks[t].op = "query" /\ tasks[t].pc \in {"return", "route_return", "done"}

DocOrder(d) == IF d = "doc1" THEN 1 ELSE 2

ChunkIdBefore(x, y) ==
    \/ DocOrder(x[1]) < DocOrder(y[1])
    \/ x[1] = y[1] /\ x[2] < y[2]

RankedBefore(a, b) ==
    \/ a.score > b.score
    \/ a.score = b.score /\ ChunkIdBefore(a.chunk_id, b.chunk_id)

(***************************************************************************)
(* C6: ingesting an empty or whitespace-only text fails with EmptyDocument: *)
(* the call never returns a success result and neither the embedder nor    *)
(* store_embeddings is invoked for it.                                     *)
(***************************************************************************)
C6_EmptyDocumentRejected ==
    \A t \in TaskIds :
        (tasks[t].op = "ingest" /\ Blank(tasks[t].text)) =>
            /\ tasks[t].response.status # "success"
            /\ ~CalledBy(embed_calls, t)
            /\ ~CalledBy(store_calls, t)

(***************************************************************************)
(* C7: after the same (document_id, text) has been ingested twice in       *)
(* sequence the store holds exactly one chunk set for the document: the    *)
(* chunks of the text, once.                                               *)
(***************************************************************************)
C7_IdempotentReingest ==
    \A t, u \in TaskIds :
        (/\ t # u
         /\ IngestDone(t) /\ IngestDone(u)
         /\ tasks[t].document_id = tasks[u].document_id
         /\ tasks[t].text = tasks[u].text) =>
            StoredFor(tasks[t].document_id) = TaskRecords(t)

(***************************************************************************)
(* C8: two concurrent ingest calls on the same document_id are serialized: *)
(* once both have returned, the store holds the complete chunk set of one  *)
(* of the two calls, never a mixture and never an empty set.               *)
(***************************************************************************)
C8_ConcurrentIngestSerialized ==
    \A t, u \in TaskIds :
        (/\ t # u
         /\ IngestDone(t) /\ IngestDone(u)
         /\ tasks[t].document_id = tasks[u].document_id
         /\ ~Blank(tasks[t].text) /\ ~Blank(tasks[u].text)) =>
            /\ StoredFor(tasks[t].document_id) # {}
            /\ StoredFor(tasks[t].document_id) \in {TaskRecords(t), TaskRecords(u)}

(***************************************************************************)
(* C9: after a store of N chunks has completed, a search with top_k >= the *)
(* number of stored items returns all of them, one match per stored chunk. *)
(* (A task at "return" holds the event loop, so an ingest that is done     *)
(* completed before its search.)                                           *)
(***************************************************************************)
C9_SearchReturnsAllStored ==
    \A t, u \in TaskIds :
        (/\ tasks[t].op = "query" /\ tasks[t].pc = "return"
         /\ IngestDone(u)
         /\ tasks[t].max_results >= Len(tasks[u].chunks)) =>
            /\ Len(tasks[t].results) = Len(tasks[u].chunks)
            /\ \A r \in TaskRecords(u) :
                  \E i \in 1..Len(tasks[t].results) :
                      tasks[t].results[i].chunk_id = r.chunk_id

C11_DimensionMismatchRejected ==
    \A t \in TaskIds :
        (/\ tasks[t].op = "query" /\ tasks[t].pc = "done"
         /\ CalledBy(search_calls, t)
         /\ Len(tasks[t].query_embedding) # EmbeddingDimension) =>
            /\ tasks[t].response.status = "error"
            /\ tasks[t].response.kind = "DimensionMismatch"
            /\ vstore = {}

(***************************************************************************)
(* C13: the embedder never returns a zero-length vector: every vector that *)
(* generate_embedding or generate_embeddings_batch has returned has the    *)
(* fixed dimension.                                                        *)
(***************************************************************************)
C13_NoZeroLengthVector ==
    \A t \in TaskIds :
        /\ (tasks[t].op = "ingest" /\ tasks[t].pc \in {"store", "return", "done"}) =>
              \A i \in 1..Len(tasks[t].embeddings) :
                  Len(tasks[t].embeddings[i]) = EmbeddingDimension
        /\ (tasks[t].op = "query" /\ tasks[t].pc \in {"search", "return", "done"}) =>
              Len(tasks[t].query_embedding) = EmbeddingDimension

(***************************************************************************)
(* C14: the batch embedding of a sequence of texts (the empty sequence     *)
(* included) has the length of the sequence, and its vector at position i  *)
(* is the single embedding of the text at position i.                      *)
(***************************************************************************)
C14_BatchMatchesSingle ==
    \A i \in 1..Len(embed_calls) :
        embed_calls[i].method = "batch" =>
            LET t == embed_calls[i].task
            IN  /\ tasks[t].chunks = embed_calls[i].texts
                /\ Len(tasks[t].embeddings) = Len(embed_calls[i].texts)
                /\ \A k \in 1..Len(embed_calls[i].texts) :
                      tasks[t].embeddings[k] = generate_embedding(embed_calls[i].texts[k])

\* A batch of several texts and a batch of none have been embedded.
C14_Witness ==
    /\ \E i \in 1..Len(embed_calls) :
          embed_calls[i].method = "batch" /\ Len(embed_calls[i].texts) >= 2
    /\ \E i \in 1..Len(embed_calls) :
          embed_calls[i].method = "batch" /\ embed_calls[i].texts = <<>>

C15_BlankQuestionRejected ==
    \A t \in TaskIds :
        (/\ tasks[t].op = "query"
         /\ tasks[t].via = "route"
         /\ Blank(tasks[t].question)) =>
            /\ ~CalledBy(embed_calls, t)
            /\ ~CalledBy(search_calls, t)
            /\ tasks[t].pc # "done"

(***************************************************************************)
(* C16: every requested max_results is clamped into 1..20 and the query    *)
(* runs: the search is called with the clamped value.                      *)
(***************************************************************************)
Clamp(v) ==
    IF v < max_results_ge THEN max_results_ge
    ELSE IF v > max_results_le THEN max_results_le ELSE v

RouteQueryEnded(t) ==
    /\ tasks[t].op = "query"
    /\ tasks[t].via = "route"
    /\ tasks[t].pc \in {"done", "rejected"}

C16_TopKClamped ==
    \A t \in TaskIds :
        (RouteQueryEnded(t) /\ tasks[t].requested.given /\ ~Blank(tasks[t].question)) =>
            \E i \in 1..Len(search_calls) :
                /\ search_calls[i].task = t
                /\ search_calls[i].top_k = Clamp(tasks[t].requested.value)

(***************************************************************************)
(* C16, as the route behaves: a request whose max_results is outside 1..20 *)
(* is rejected and neither embedded nor searched; a request without        *)
(* max_results is searched with 5; the route's search calls have a top_k   *)
(* within 1..20 that is the requested value when one was given.            *)
(***************************************************************************)
C16_OutOfRangeRejected ==
    \A t \in TaskIds :
        (tasks[t].op = "query" /\ tasks[t].via = "route") =>
            /\ (/\ tasks[t].requested.given
                /\ tasks[t].requested.value \notin max_results_ge..max_results_le) =>
                   /\ tasks[t].pc = "rejected"
                   /\ tasks[t].http.status_code = 422
                   /\ ~CalledBy(embed_calls, t)
                   /\ ~CalledBy(search_calls, t)
            /\ \A i \in 1..Len(search_calls) :
                   search_calls[i].task = t =>
                       /\ search_calls[i].top_k \in max_results_ge..max_results_le
                       /\ search_calls[i].top_k =
                              IF tasks[t].requested.given
                              THEN tasks[t].requested.value ELSE max_results_default

C16_Witness ==
    \E t \in TaskIds, u \in TaskIds :
        /\ RouteQueryEnded(t)
        /\ ~Blank(tasks[t].question)
        /\ tasks[t].requested.given
        /\ tasks[t].requested.value > max_results_le
        /\ tasks[t].pc = "rejected"
        /\ RouteQueryEnded(u)
        /\ ~tasks[u].requested.given
        /\ CalledBy(search_calls, u)

(***************************************************************************)
(* C17: an error raised by the embedder or the store reaches the caller of *)
(* the pipeline with the same kind and message, and the failed stage is    *)
(* not called again.                                                       *)
(***************************************************************************)
CallsBy(calls, t) == Cardinality({i \in 1..Len(calls) : calls[i].task = t})

NoRetry(t) ==
    /\ CallsBy(embed_calls, t) <= 1
    /\ CallsBy(store_calls, t) <= 1
    /\ CallsBy(search_calls, t) <= 1

Raised(t) == tasks[t].raised # NoError

C17_ErrorsPropagateUnchanged ==
    \A t \in TaskIds :
        Raised(t) =>
            /\ tasks[t].response.kind = tasks[t].raised.kind
            /\ tasks[t].response.message = tasks[t].raised.message
            /\ NoRetry(t)

(***************************************************************************)
(* C17, as the pipelines behave: the caller gets a generic Exception whose *)
(* message is the pipeline's prefix followed by the message of the error   *)
(* raised; the kind of the error is lost; no stage is called twice.        *)
(***************************************************************************)
PipelinePrefix(t) ==
    IF tasks[t].op = "ingest"
    THEN <<"Failed to process document: ">>
    ELSE <<"Failed to query documents: ">>

C17_ErrorsWrappedOnce ==
    \A t \in TaskIds :
        Raised(t) =>
            /\ tasks[t].response.status = "error"
            /\ tasks[t].response.kind = "Exception"
            /\ tasks[t].response.kind # tasks[t].raised.kind
            /\ tasks[t].response.message = PipelinePrefix(t) \o tasks[t].raised.message
            /\ NoRetry(t)

C17_Witness ==
    \E t \in TaskIds, u \in TaskIds :
        /\ tasks[t].op = "ingest"
        /\ tasks[t].pc = "failed"
        /\ tasks[t].raised.kind = "StoreFailure"
        /\ tasks[u].op = "query"
        /\ tasks[u].pc = "failed"
        /\ tasks[u].raised.kind = "ModelUnavailable"

(***************************************************************************)
(* C18: no step of an ingest call before its store step returns changes    *)
(* the store, so an ingest that fails at any stage leaves the store as it  *)
(* was when the call began.                                                *)
(***************************************************************************)
C18_NoWriteBeforeStore ==
    [][\A t \in TaskIds :
          (/\ tasks'[t].op = "ingest"
           /\ tasks'[t].pc # tasks[t].pc
           /\ tasks'[t].pc \in {"chunk", "embed", "store", "failed"}) =>
              vstore' = vstore]_vars

C18_Witness ==
    \E t \in TaskIds :
        /\ tasks[t].op = "ingest"
        /\ tasks[t].pc = "failed"
        /\ Len(tasks[t].chunks) >= 2
        /\ CalledBy(embed_calls, t)
        /\ ~CalledBy(store_calls, t)
        /\ StoredFor(tasks[t].document_id) = {}

C20_EstimateFormula ==
    estimate # <<>> => estimate[1] = Max(1, Len(text) \div chunk_size)

(***************************************************************************)
(* C20, as the code computes it: 0 for the empty text; for every other     *)
(* text the number of whole chunk_size blocks in it, and at least 1.       *)
(***************************************************************************)
C20_EstimateOfNonEmpty ==
    estimate # <<>> =>
        IF text = <<>>
        THEN estimate[1] = 0
        ELSE /\ estimate[1] >= 1
             /\ Len(text) < chunk_size => estimate[1] = 1
             /\ Len(text) >= chunk_size =>
                   /\ estimate[1] * chunk_size <= Len(text)
                   /\ (estimate[1] + 1) * chunk_size > Len(text)

C20_Witness ==
    /\ estimate # <<>>
    /\ text # <<>>
    /\ Len(text) < chunk_size
    /\ estimate[1] = 1

(***************************************************************************)
(* C21: the estimate is an upper bound of the real chunk count: the list   *)
(* chunk_text returns for a text has at most get_chunk_count(text) chunks. *)
(***************************************************************************)
C21_EstimateIsUpperBound ==
    (cpc = "done" /\ estimate # <<>>) => Len(result) <= estimate[1]

(***************************************************************************)
(* C22: the overlap step runs only when chunk_overlap > 0 and more than    *)
(* one chunk was packed; it keeps the number of chunks and the first       *)
(* chunk, and every later chunk becomes the last min(chunk_overlap,        *)
(* length) characters of the previous chunk as packed, one space, and the  *)
(* chunk as packed.  Otherwise the packed chunks are returned as they are. *)
(***************************************************************************)
C22_OverlapStep ==
    cpc = "done" =>
        /\ Len(result) = Len(packed)
        /\ IF chunk_overlap > 0 /\ Len(packed) > 1
           THEN /\ result[1] = packed[1]
                /\ \A i \in 2..Len(packed) :
                      result[i] =
                          LastChars(packed[i - 1],
                                    Min(chunk_overlap, Len(packed[i - 1])))
                          \o <<" ">> \o packed[i]
           ELSE result = packed

\* Three chunks, the second one shorter than chunk_overlap as packed and
\* longer than it once it carries its own overlap.
C22_Witness ==
    /\ cpc = "done"
    /\ chunk_overlap > 0
    /\ Len(result) >= 3
    /\ Len(packed[2]) < chunk_overlap
    /\ Len(result[2]) > chunk_overlap
    /\ Len(result[3]) = Len(packed[2]) + 1 + Len(packed[3])

(***************************************************************************)
(* C23: an ingest call runs chunk, then embed_batch, then store; the store *)
(* receives the chunker's output in its order, with the embedding of chunk *)
(* i at index i; chunks_created is the number of chunks the chunker        *)
(* produced and the store received.                                        *)
(***************************************************************************)
ChunkerOutput(t) == chunk_text(tasks[t].text, chunk_size, chunk_overlap)

C23_IngestStagesInOrder ==
    \A t \in TaskIds :
        tasks[t].op = "ingest" =>
            /\ tasks[t].pc = "chunk" =>
                  ~CalledBy(embed_calls, t) /\ ~CalledBy(store_calls, t)
            /\ tasks[t].pc = "embed" =>
                  ~CalledBy(embed_calls, t) /\ ~CalledBy(store_calls, t)
            /\ tasks[t].pc = "store" =>
                  CalledBy(embed_calls, t) /\ ~CalledBy(store_calls, t)
            /\ tasks[t].pc \in {"return", "done"} =>
                  CalledBy(embed_calls, t) /\ CalledBy(store_calls, t)
            /\ \A i \in 1..Len(embed_calls) :
                  embed_calls[i].task = t => embed_calls[i].texts = ChunkerOutput(t)
            /\ \A i \in 1..Len(store_calls) :
                  store_calls[i].task = t =>
                      /\ store_calls[i].chunks = ChunkerOutput(t)
                      /\ Len(store_calls[i].embeddings) = Len(store_calls[i].chunks)
                      /\ \A k \in 1..Len(store_calls[i].chunks) :
                            store_calls[i].embeddings[k] =
                                generate_embedding(store_calls[i].chunks[k])
                      /\ tasks[t].pc = "done" =>
                            tasks[t].response.chunks_created =
                                Len(store_calls[i].chunks)
            /\ tasks[t].pc = "done" =>
                  tasks[t].response.chunks_created = Len(ChunkerOutput(t))

C23_Witness ==
    \E t \in TaskIds :
        /\ IngestDone(t)
        /\ tasks[t].response.chunks_created >= 2
        /\ \E i \in 1..Len(store_calls) :
              /\ store_calls[i].task = t
              /\ Len(store_calls[i].chunks) >= 2
              /\ store_calls[i].chunks[1] # store_calls[i].chunks[2]

(***************************************************************************)
(* C24: for a text with at least one non-whitespace character chunk_text   *)
(* returns at least one chunk, and no chunk it returns is empty, with or   *)
(* without the overlap step.                                               *)
(***************************************************************************)
C24_ChunksNonEmpty ==
    (cpc = "done" /\ ~Blank(text)) =>
        /\ Len(result) >= 1
        /\ \A i \in 1..Len(result) : result[i] # <<>>
        /\ \A i \in 1..Len(packed) : packed[i] # <<>>

\* A text that starts with whitespace, is longer than chunk_size and is
\* returned in several chunks carrying overlap.
C24_Witness ==
    /\ cpc = "done"
    /\ ~Blank(text)
    /\ text[1] \in Whitespace
    /\ Len(text) > chunk_size
    /\ chunk_overlap > 0
    /\ Len(result) >= 2
    /\ \A i \in 1..Len(result) : result[i] # <<>>

(***************************************************************************)
(* C25: dispatch passes a request to the downstream handler only if it is  *)
(* an OPTIONS request, or its path is one of the public routes, or it has  *)
(* an "Authorization: Bearer ..." header and the auth service answered the *)
(* validation with status 200.  In every other case the handler is not     *)
(* invoked and the response is 401, 503 or 500.                            *)
(***************************************************************************)
PassedOn == handler_calls # <<>>

MayPass ==
    \/ auth.method = "OPTIONS"
    \/ auth.path \in public_routes
    \/ /\ auth.has_header
       /\ StartsWithBearer(auth.auth_header)
       /\ auth.answer.kind = "response"
       /\ auth.answer.status_code = 200

C25_HandlerOnlyWhenAuthorized ==
    /\ PassedOn => MayPass
    /\ Len(handler_calls) <= 1
    /\ (auth.pc = "done" /\ ~MayPass) =>
          /\ ~PassedOn
          /\ auth.response.status_code \in {401, 503, 500}

\* A request with a Bearer header on a protected path that the auth
\* service did not answer with 200, ended without reaching the handler.
C25_Witness ==
    /\ auth.pc = "done"
    /\ auth.method # "OPTIONS"
    /\ auth.path = "/api/health/"
    /\ StartsWithBearer(auth.auth_header)
    /\ auth.answer.kind = "response"
    /\ auth.answer.status_code = 500
    /\ auth.response.status_code = 401
    /\ ~PassedOn

(***************************************************************************)
(* C26: the conversation and the user message of a chat request are        *)
(* committed before the LLM is called and stay whatever the call ends      *)
(* with; an assistant message is stored only for a 200 answer with         *)
(* non-empty content, and then after that user message.                    *)
(***************************************************************************)
Answered200(c) ==
    /\ chats[c].outcome.kind = "response"
    /\ chats[c].outcome.status_code = 200
    /\ chats[c].outcome.content # <<>>

UserMessageStored(c) ==
    /\ chats[c].conversation_id \in conversations
    /\ chats[c].user_index \in 1..Len(messages)
    /\ messages[chats[c].user_index] =
           [conversation_id |-> chats[c].conversation_id,
            role |-> "user", content |-> chats[c].message]

C26_UserMessageKept ==
    /\ \A i \in 1..Len(llm_calls) :
          /\ UserMessageStored(llm_calls[i].chat)
          /\ llm_calls[i].context # <<>>
          /\ llm_calls[i].context[Len(llm_calls[i].context)] =
                 messages[chats[llm_calls[i].chat].user_index]
    /\ \A c \in ChatIds :
          /\ chats[c].pc \in {"llm", "done"} =>
                /\ UserMessageStored(c)
                /\ \E i \in 1..Len(llm_calls) : llm_calls[i].chat = c
          /\ chats[c].pc = "llm" => chats[c].assistant_index = 0
          /\ chats[c].pc = "done" =>
                /\ chats[c].assistant_index # 0 => Answered200(c)
                /\ chats[c].assistant_index # 0 =>
                      /\ chats[c].assistant_index > chats[c].user_index
                      /\ chats[c].assistant_index <= Len(messages)
                      /\ messages[chats[c].assistant_index] =
                             [conversation_id |-> chats[c].conversation_id,
                              role |-> "assistant",
                              content |-> chats[c].outcome.content]
    /\ Cardinality({i \in 1..Len(messages) : messages[i].role = "assistant"}) =
       Cardinality({c \in ChatIds : chats[c].pc = "done" /\ Answered200(c)})
    /\ Cardinality({i \in 1..Len(messages) : messages[i].role = "user"}) =
       Cardinality({c \in ChatIds : chats[c].pc \in {"llm", "done"}})

\* Two requests on one conversation: the LLM call of one timed out, the
\* other one got its answer.
C26_Witness ==
    \E c \in ChatIds, d \in ChatIds :
        /\ chats[c].pc = "done"
        /\ chats[c].outcome.kind = "TimeoutException"
        /\ chats[c].http.status_code = 504
        /\ chats[d].pc = "done"
        /\ chats[d].conversation_id = chats[c].conversation_id
        /\ Answered200(d)
        /\ chats[d].assistant_index > chats[c].user_index

====
